---- MODULE Spec2Model ----
(***************************************************************************)
(* A model of the Bosch SHC binary_sensor / sensor platforms               *)
(* (custom_components/bosch_shc/binary_sensor.py and sensor.py).           *)
(*                                                                         *)
(* The platforms share no state with each other, so each part of the code  *)
(* gets its own specification over the module's variables:                 *)
(*   SpecMotion / SpecMotionLive   MotionDetectionSensor.is_on, polled     *)
(*   SpecEvents / SpecEventsLive   the device-callback event listeners and *)
(*                                 the stop handlers                       *)
(*   SpecService                   the smoke detector's entity services    *)
(*   SpecProps                     the binary sensors' mapped properties   *)
(*   SpecEnergy                    EnergySensor.native_value               *)
(*   SpecSetup                     async_setup_entry of the two platforms  *)
(*   SpecSensorIds                 the unique ids of the sensor platform   *)
(***************************************************************************)
EXTENDS Integers, Sequences, FiniteSets, TLC

VARIABLES
    now,            \* the host clock, datetime.utcnow(), in whole seconds
    latestmotion,   \* the motion detector's latestmotion attribute (a string or None)
    motionRead,     \* what the last read of is_on gave: "unread", "True", "False"
                    \* or the name of the exception that escaped
    motionReadOf,   \* the latestmotion value the last read of is_on saw
    motionFresh     \* TRUE while nothing has happened since the last read of is_on

motionVars == <<now, latestmotion, motionRead, motionReadOf, motionFresh>>

VARIABLES
    device_services,  \* per device: the ids of its services, in order
    built,            \* per entity: TRUE once its constructor has run
    entityService,    \* per entity: self._service, a service id or "None"
    callbacks,        \* the device layer's subscriptions: records
                      \* [device, service, key, entity]
    stopListeners,    \* per entity: its listeners for the host's stop event
    stopFired,        \* TRUE once the host has fired its stop event
    stopHandled,      \* per entity: "no", or how _handle_ha_stop ended
    notifications,    \* the device-layer notifications so far, in order
    deviceThread,     \* the device layer's polling thread: what it runs
    loopQueue,        \* coroutines scheduled onto the host event loop
    future,           \* the future of run_coroutine_threadsafe
    invocations,      \* the callback invocations, in order
    events            \* the EVENT_BOSCH_SHC events fired on the bus, in order

eventVars == <<device_services, built, entityService, callbacks, stopListeners,
               stopFired, stopHandled, notifications, deviceThread, loopQueue,
               future, invocations, events>>

VARIABLES
    serviceCalls,   \* the entity service calls made so far, each with its progress
    deviceLog,      \* per smoke detector device: the operations run on it, in order
    alarmstate      \* per smoke detector device: its alarmstate attribute

serviceVars == <<serviceCalls, deviceLog, alarmstate>>

VARIABLES
    attrs,          \* the attributes of one device of each kind, by name
    propRead        \* the last entity property read: its name, input and value

propVars == <<attrs, propRead>>

VARIABLES
    energyconsumption,  \* the device's energyconsumption attribute (Wh)
    energyRead          \* the last two reads of EnergySensor.native_value

energyVars == <<energyconsumption, energyRead>>

VARIABLES
    session,        \* the session's devices, in the device helper's order, and
                    \* whether it has a smoke detection system
    serials,        \* the serial of each device of the session
    platform,       \* the platform whose async_setup_entry has run, or "none"
    addCalls,       \* the entity lists passed to async_add_entities, in order
    registered,     \* the entity services registered, in order
    migrations      \* the calls of migrate_old_unique_ids, in order

setupVars == <<session, serials, platform, addCalls, registered, migrations>>

vars == <<motionVars, eventVars, serviceVars, propVars, energyVars, setupVars>>

notMotion == <<eventVars, serviceVars, propVars, energyVars, setupVars>>
notEvents == <<motionVars, serviceVars, propVars, energyVars, setupVars>>
notService == <<motionVars, eventVars, propVars, energyVars, setupVars>>
notProps == <<motionVars, eventVars, serviceVars, energyVars, setupVars>>
notEnergy == <<motionVars, eventVars, serviceVars, propVars, setupVars>>
notSetup == <<motionVars, eventVars, serviceVars, propVars, energyVars>>

\* Each specification runs one part of the code; the variables of the other
\* parts then hold these values throughout.
NoMotion ==
    /\ now = 0 /\ latestmotion = <<>> /\ motionRead = "unread"
    /\ motionReadOf = <<>> /\ motionFresh = FALSE
NoEvents ==
    /\ device_services = <<>> /\ built = <<>> /\ entityService = <<>>
    /\ callbacks = {} /\ stopListeners = <<>> /\ stopFired = FALSE
    /\ stopHandled = <<>> /\ notifications = <<>> /\ deviceThread = <<>>
    /\ loopQueue = <<>> /\ future = <<>> /\ invocations = <<>> /\ events = <<>>
NoService == serviceCalls = <<>> /\ deviceLog = <<>> /\ alarmstate = <<>>
NoProps == attrs = <<>> /\ propRead = <<>>
NoEnergy == energyconsumption = 0 /\ energyRead = <<>>
NoSetup ==
    /\ session = <<>> /\ serials = <<>> /\ platform = "none" /\ addCalls = <<>>
    /\ registered = <<>> /\ migrations = <<>>

-----------------------------------------------------------------------------
(* Bounds of the model.                                                    *)

\* the clock runs from 0 to MaxTime seconds
MaxTime == 250
\* a device timestamp may lie up to ClockSkew seconds ahead of the host clock
ClockSkew == 2

-----------------------------------------------------------------------------
(* MotionDetectionSensor.is_on                                             *)

\* timedelta(seconds=4 * 60)
MotionWindow == 4 * 60

\* The values the device's latestmotion attribute takes.  A string is
\* modelled by its shape: "iso_frac_z" is a string of the form
\* 2021-03-04T05:06:07.089Z denoting second t; "iso_z" is the same instant
\* without the fractional part (2021-03-04T05:06:07Z); "empty" is "";
\* "none" is Python's None (the attribute is absent).
TimestampOf(t) == [shape |-> "iso_frac_z", t |-> t]
MalformedMotion == { [shape |-> "iso_z", t |-> 0], [shape |-> "empty", t |-> 0] }
AbsentMotion == [shape |-> "none", t |-> 0]

\* datetime.strptime(s, "%Y-%m-%dT%H:%M:%S.%fZ"): the parsed instant, or the
\* exception raised: ValueError for a string that does not match the
\* format, TypeError for an argument that is not a string.
strptime(s) ==
    CASE s.shape = "iso_frac_z" -> [raised |-> "", t |-> s.t]
      [] s.shape = "none"       -> [raised |-> "TypeError", t |-> 0]
      [] OTHER                  -> [raised |-> "ValueError", t |-> 0]

\* A slip in the comparison: the boundary second counts as expired.
MotionExpired_AtBoundary(elapsed) == elapsed >= MotionWindow

\* elapsed > timedelta(seconds=4 * 60)
MotionExpired(elapsed) == elapsed > MotionWindow

\* A slip in is_on: the staleness check is left out.
MotionDetectionSensor_is_on_NoExpiry(lm, utcnow) ==
    LET parsed == strptime(lm) IN
    IF parsed.raised = "ValueError" THEN [raised |-> "", value |-> FALSE]
    ELSE IF parsed.raised # "" THEN [raised |-> parsed.raised, value |-> FALSE]
    ELSE [raised |-> "", value |-> TRUE]

\* The property is_on: the value returned and the exception that escapes.
MotionDetectionSensor_is_on(lm, utcnow) ==
    LET parsed == strptime(lm) IN
    IF parsed.raised = "ValueError" THEN [raised |-> "", value |-> FALSE]
    ELSE IF parsed.raised # "" THEN [raised |-> parsed.raised, value |-> FALSE]
    ELSE IF MotionExpired(utcnow - parsed.t) THEN [raised |-> "", value |-> FALSE]
    ELSE [raised |-> "", value |-> TRUE]

\* should_poll
MotionDetectionSensor_should_poll == TRUE

InitMotion ==
    /\ now = 0
    /\ latestmotion \in MalformedMotion \cup {AbsentMotion, TimestampOf(0)}
    /\ motionRead = "unread"
    /\ motionReadOf = latestmotion
    /\ motionFresh = FALSE
    /\ NoEvents /\ NoService /\ NoProps /\ NoEnergy /\ NoSetup

\* The clock advances.
Tick ==
    /\ now < MaxTime
    /\ now' = now + 1
    /\ motionFresh' = FALSE
    /\ UNCHANGED <<latestmotion, motionRead, motionReadOf>>
    /\ UNCHANGED notMotion

\* The device records a motion: the device layer stores the hub's timestamp.
\* Motions are taken while a whole window still fits before MaxTime.
Motion ==
    /\ \E skew \in 0..ClockSkew :
          /\ now + skew + MotionWindow < MaxTime
          /\ latestmotion' = TimestampOf(now + skew)
    /\ motionFresh' = FALSE
    /\ UNCHANGED <<now, motionRead, motionReadOf>>
    /\ UNCHANGED notMotion

\* The host polls the entity (should_poll is true) and reads is_on.
Poll ==
    /\ MotionDetectionSensor_should_poll
    /\ LET r == MotionDetectionSensor_is_on(latestmotion, now) IN
          motionRead' = IF r.raised # "" THEN r.raised
                        ELSE IF r.value THEN "True" ELSE "False"
    /\ motionReadOf' = latestmotion
    /\ motionFresh' = TRUE
    /\ UNCHANGED <<now, latestmotion>>
    /\ UNCHANGED notMotion

NextMotion == Tick \/ Motion \/ Poll

SpecMotion == InitMotion /\ [][NextMotion]_vars

\* The host's clock advances and the host keeps polling a should_poll entity.
SpecMotionLive == SpecMotion /\ WF_vars(Tick) /\ WF_vars(Poll)

-----------------------------------------------------------------------------
(* Claims about MotionDetectionSensor.is_on                                *)

WellFormed(lm) == lm.shape = "iso_frac_z"

\* C1: a read of is_on is true exactly when latestmotion is a timestamp of
\* the format %Y-%m-%dT%H:%M:%S.%fZ and the time elapsed since it is at most
\* 240 seconds (so exactly 240 seconds and a negative elapsed time are on);
\* with a well-formed timestamp older than 240 seconds the read is false.
C1_MotionIsOn ==
    motionFresh =>
        /\ (motionRead = "True") <=>
               (WellFormed(latestmotion) /\ now - latestmotion.t <= 240)
        /\ (WellFormed(latestmotion) /\ now - latestmotion.t > 240)
               => motionRead = "False"

\* C1 witness: a read exactly 240 seconds after the motion gave true.
C1_Witness ==
    /\ motionFresh /\ motionRead = "True"
    /\ WellFormed(latestmotion) /\ now - latestmotion.t = 240

\* C1 second case: a read of a timestamp ahead of the clock gave true.
C1_WitnessFuture ==
    /\ motionFresh /\ motionRead = "True"
    /\ WellFormed(latestmotion) /\ now - latestmotion.t < 0

\* C2: for the polled motion entity, with the last motion recorded at t,
\* every read at a time in [t, t+240] is true and every read after t+240 is
\* false; once a read was false every later read is false until
\* latestmotion changes; and the entity does not stay on forever without a
\* new motion.
C2_PolledMotion ==
    /\ MotionDetectionSensor_should_poll
    /\ [](motionFresh /\ WellFormed(latestmotion) =>
            /\ (latestmotion.t <= now /\ now <= latestmotion.t + 240)
                   => motionRead = "True"
            /\ now > latestmotion.t + 240 => motionRead = "False")
    /\ [][(motionRead = "False" /\ motionFresh' /\ motionReadOf' = motionReadOf)
             => motionRead' = "False"]_vars
    /\ (motionRead = "True") ~>
          (motionRead # "True" \/ latestmotion # motionReadOf)

\* C2 witness: a read after the window of a recorded motion gave false,
\* after an earlier read of the same motion.
C2_Witness ==
    /\ motionFresh /\ motionRead = "False"
    /\ WellFormed(latestmotion) /\ latestmotion.t > 0
    /\ now > latestmotion.t + 240

\* C14: a read of is_on returns False and raises nothing whenever
\* latestmotion is not a well-formed timestamp: an empty string, a string
\* in another format, or an absent (None) value.
C14_MalformedIsOff ==
    (motionFresh /\ ~WellFormed(latestmotion)) => motionRead = "False"

\* C14 failing case: is_on was read while latestmotion was None, and
\* strptime's TypeError escaped the property.
C14_Witness ==
    /\ motionFresh
    /\ latestmotion = AbsentMotion
    /\ motionRead = "TypeError"

\* C14, the strings: a read of an empty or differently formatted
\* latestmotion gave False.
C14_WitnessMalformed ==
    /\ motionFresh
    /\ latestmotion \in MalformedMotion
    /\ motionRead = "False"

-----------------------------------------------------------------------------
(* The event listeners of MotionDetectionSensor, SmokeDetectorSensor and   *)
(* SmokeDetectionSystemSensor.                                             *)
(*                                                                         *)
(* The device layer (an external library) runs one polling thread; when a  *)
(* service of a device reports, that thread calls the callbacks subscribed *)
(* on the service, one after the other.  The host runs one event loop.     *)

\* the device layer delivers at most MaxNotifications notifications
MaxNotifications == 2

\* One entity of each class that listens to its device.
Entities == {"motion", "smoke", "sds"}

\* self._device.id and self._device.name of the entity's device
DeviceId(e) ==
    CASE e = "motion" -> "hdm:md" [] e = "smoke" -> "hdm:sd" [] e = "sds" -> "hdm:sds"
DeviceName(e) ==
    CASE e = "motion" -> "Hall" [] e = "smoke" -> "Kitchen" [] e = "sds" -> "System"

\* The service id the constructor looks for.
WantedService(e) ==
    CASE e = "motion" -> "LatestMotion"
      [] e = "smoke"  -> "Alarm"
      [] e = "sds"    -> "SurveillanceAlarm"

\* A slip: every class reports the motion detector's event type.
EventType_AlwaysMotion(e) == "MOTION"

\* ATTR_EVENT_TYPE of the event the class fires
EventType(e) == IF e = "motion" THEN "MOTION" ELSE "ALARM"

\* self._device.id + "_eventlistener"
ListenerKey(e) == <<DeviceId(e), "_eventlistener">>

\* A slip: the stop handler builds its key from the device name.
UnsubscribeKey_FromName(e) == <<DeviceName(e), "_eventlistener">>

\* the key _handle_ha_stop passes to unsubscribe_callback
UnsubscribeKey(e) == <<DeviceId(e), "_eventlistener">>

\* service.subscribe_callback(key, callback): one callback per key and service
subscribe_callback(cbs, e, sid, key) ==
    { c \in cbs : ~(c.device = DeviceId(e) /\ c.service = sid /\ c.key = key) }
        \cup { [device |-> DeviceId(e), service |-> sid, key |-> key, entity |-> e] }

\* service.unsubscribe_callback(key)
unsubscribe_callback(cbs, e, sid, key) ==
    { c \in cbs : ~(c.device = DeviceId(e) /\ c.service = sid /\ c.key = key) }

\* for service in self._device.device_services: if service.id == wanted: ...
\* The loop of the constructor over the first n services: the pair of
\* self._service and the subscriptions after it.
RECURSIVE ScanServices(_, _, _, _)
ScanServices(e, services, n, start) ==
    IF n = 0 THEN start
    ELSE LET before == ScanServices(e, services, n - 1, start) IN
         IF services[n] = WantedService(e)
         THEN [service |-> services[n],
               cbs |-> subscribe_callback(before.cbs, e, services[n], ListenerKey(e))]
         ELSE before

Idle == [pc |-> "idle", e |-> "none"]
\* the id async_get_device_id returns for a device the registry does not hold
NoDeviceId == <<"None">>

NoFuture == [done |-> FALSE, result |-> NoDeviceId, scheduled |-> FALSE]

InitEvents ==
    /\ device_services \in
          [Entities -> {<<"BatteryLevel">>, <<"BatteryLevel", "wanted">>}]
    /\ built = [e \in Entities |-> FALSE]
    /\ entityService = [e \in Entities |-> "None"]
    /\ callbacks = {}
    /\ stopListeners = [e \in Entities |-> 0]
    /\ stopFired = FALSE
    /\ stopHandled = [e \in Entities |-> "no"]
    /\ notifications = <<>>
    /\ deviceThread = Idle
    /\ loopQueue = <<>>
    /\ future = NoFuture
    /\ invocations = <<>>
    /\ events = <<>>
    /\ NoMotion /\ NoService /\ NoProps /\ NoEnergy /\ NoSetup

\* The service ids of the entity's device ("wanted" stands for the id the
\* entity's class looks for).
ServicesOf(e) ==
    [i \in 1..Len(device_services[e]) |->
        IF device_services[e][i] = "wanted" THEN WantedService(e)
        ELSE device_services[e][i]]

\* __init__ of the three classes, called by the platform setup.
Construct(e) ==
    /\ ~built[e] /\ ~stopFired
    /\ LET scan == ScanServices(e, ServicesOf(e), Len(ServicesOf(e)),
                                [service |-> "None", cbs |-> callbacks]) IN
          /\ entityService' = [entityService EXCEPT ![e] = scan.service]
          /\ callbacks' = scan.cbs
    /\ stopListeners' = [stopListeners EXCEPT ![e] = @ + 1]
    /\ built' = [built EXCEPT ![e] = TRUE]
    /\ UNCHANGED <<device_services, stopFired, stopHandled, notifications,
                   deviceThread, loopQueue, future, invocations, events>>
    /\ UNCHANGED notEvents

\* The device layer's polling thread gets a report of service sid of e's
\* device and calls the callback subscribed on that service, if any.
Notify(e, sid) ==
    /\ deviceThread.pc = "idle"
    /\ Len(notifications) < MaxNotifications
    /\ \E i \in 1..Len(ServicesOf(e)) : ServicesOf(e)[i] = sid
    /\ notifications' = Append(notifications, <<DeviceId(e), sid>>)
    /\ LET subscribed == { c \in callbacks :
                              c.device = DeviceId(e) /\ c.service = sid } IN
          IF subscribed = {}
          THEN UNCHANGED <<deviceThread, invocations>>
          ELSE \E c \in subscribed :
                  /\ deviceThread' = [pc |-> "handler", e |-> c.entity]
                  /\ invocations' = Append(invocations,
                        [entity |-> c.entity, by |-> Len(notifications) + 1])
    /\ UNCHANGED <<device_services, built, entityService, callbacks, stopListeners,
                   stopFired, stopHandled, loopQueue, future, events>>
    /\ UNCHANGED notEvents

\* _async_input_events_handler, first half: asyncio.run_coroutine_threadsafe(
\* async_get_device_id(hass, device.id), hass.loop) schedules the lookup
\* onto the event loop; .result() then blocks the calling thread.
HandlerSchedule ==
    /\ deviceThread.pc = "handler"
    /\ loopQueue' = Append(loopQueue, DeviceId(deviceThread.e))
    /\ future' = [done |-> FALSE, result |-> NoDeviceId, scheduled |-> TRUE]
    /\ deviceThread' = [deviceThread EXCEPT !.pc = "waiting"]
    /\ UNCHANGED <<device_services, built, entityService, callbacks, stopListeners,
                   stopFired, stopHandled, notifications, invocations, events>>
    /\ UNCHANGED notEvents

\* The event loop runs the scheduled coroutine async_get_device_id: it
\* returns the device registry's id of the device, or None when the
\* registry has no such device, and so completes the future.
LoopRunLookup ==
    /\ loopQueue # <<>>
    /\ \E r \in {NoDeviceId, <<"registry", Head(loopQueue)>>} :
          future' = [future EXCEPT !.done = TRUE, !.result = r]
    /\ loopQueue' = Tail(loopQueue)
    /\ UNCHANGED <<device_services, built, entityService, callbacks, stopListeners,
                   stopFired, stopHandled, notifications, deviceThread,
                   invocations, events>>
    /\ UNCHANGED notEvents

\* A slip: the handler does not wait for the future.
LookupReturned_NoWait(f) == TRUE

\* Future.result() returns once the future is done.
LookupReturned(f) == f.done

\* _async_input_events_handler, second half: .result() has returned, the
\* event data is built and hass.bus.async_fire is called, on the thread the
\* handler runs on.
HandlerFire ==
    /\ deviceThread.pc = "waiting"
    /\ LookupReturned(future)
    /\ events' = Append(events,
          [device_id |-> future.result,
           id |-> DeviceId(deviceThread.e),
           name |-> DeviceName(deviceThread.e),
           event_type |-> EventType(deviceThread.e),
           thread |-> "device"])
    /\ deviceThread' = Idle
    /\ future' = NoFuture
    /\ UNCHANGED <<device_services, built, entityService, callbacks, stopListeners,
                   stopFired, stopHandled, notifications, loopQueue, invocations>>
    /\ UNCHANGED notEvents

\* The host fires EVENT_HOMEASSISTANT_STOP.
HaStop ==
    /\ ~stopFired
    /\ stopFired' = TRUE
    /\ UNCHANGED <<device_services, built, entityService, callbacks, stopListeners,
                   stopHandled, notifications, deviceThread, loopQueue, future,
                   invocations, events>>
    /\ UNCHANGED notEvents

\* _handle_ha_stop of entity e, run once by the event loop (async_listen_once):
\* self._service.unsubscribe_callback(self._device.id + "_eventlistener"),
\* which raises AttributeError when self._service is None.
HandleHaStop(e) ==
    /\ stopFired
    /\ stopListeners[e] > 0
    /\ stopListeners' = [stopListeners EXCEPT ![e] = @ - 1]
    /\ IF entityService[e] = "None"
       THEN /\ stopHandled' = [stopHandled EXCEPT ![e] = "AttributeError"]
            /\ UNCHANGED callbacks
       ELSE /\ stopHandled' = [stopHandled EXCEPT ![e] = "ok"]
            /\ callbacks' = unsubscribe_callback(callbacks, e, entityService[e],
                                                 UnsubscribeKey(e))
    /\ UNCHANGED <<device_services, built, entityService, stopFired, notifications,
                   deviceThread, loopQueue, future, invocations, events>>
    /\ UNCHANGED notEvents

NextEvents ==
    \/ \E e \in Entities : Construct(e)
    \/ \E e \in Entities : \E sid \in {"BatteryLevel", WantedService(e)} : Notify(e, sid)
    \/ HandlerSchedule
    \/ LoopRunLookup
    \/ HandlerFire
    \/ HaStop
    \/ \E e \in Entities : HandleHaStop(e)

SpecEvents == InitEvents /\ [][NextEvents]_vars

\* The event loop is running and runs what is scheduled on it; the device
\* layer's thread runs the handler it has called.
SpecEventsLive ==
    /\ SpecEvents
    /\ WF_vars(LoopRunLookup)
    /\ WF_vars(HandlerSchedule)
    /\ WF_vars(HandlerFire)

-----------------------------------------------------------------------------
(* Claims about the event listeners                                        *)

\* C3: every invocation of an entity's device-layer callback fires exactly
\* one EVENT_BOSCH_SHC event with the id and name of the entity's device and
\* the event type MOTION (motion detector, subscribed on LatestMotion) or
\* ALARM (smoke detector on Alarm, smoke detection system on
\* SurveillanceAlarm); no event is fired without a callback invocation, and
\* the events are in the order of the invocations.
C3_OneEventPerCallback ==
    /\ Len(events) = Len(invocations) - (IF deviceThread.pc = "idle" THEN 0 ELSE 1)
    /\ \A i \in 1..Len(events) :
          LET e == invocations[i].entity IN
          /\ events[i].id = DeviceId(e)
          /\ events[i].name = DeviceName(e)
          /\ e = "motion" => events[i].event_type = "MOTION"
          /\ e \in {"smoke", "sds"} => events[i].event_type = "ALARM"
    /\ \A i \in 1..Len(invocations) :
          LET e == invocations[i].entity
              by == invocations[i].by IN
          /\ by \in 1..Len(notifications)
          /\ e = "motion" => notifications[by] = <<DeviceId(e), "LatestMotion">>
          /\ e = "smoke" => notifications[by] = <<DeviceId(e), "Alarm">>
          /\ e = "sds" => notifications[by] = <<DeviceId(e), "SurveillanceAlarm">>
          /\ \A j \in 1..Len(invocations) : i < j => by < invocations[j].by

\* C3 witness: two callbacks, of the motion detector and then of a smoke
\* entity, have fired their two events.
C3_Witness ==
    /\ Len(events) = 2
    /\ events[1].event_type = "MOTION"
    /\ events[2].event_type = "ALARM"

\* C4: each entity registers exactly one one-shot stop listener at
\* construction; once the stop event is handled for an entity, no service
\* holds a callback of that entity (the key unsubscribed is the key
\* subscribed, device id + "_eventlistener") and no later device-layer
\* notification invokes its handler.
C4_StopUnsubscribes ==
    /\ [](\A e \in Entities :
            /\ (built[e] /\ ~stopFired) => stopListeners[e] = 1
            /\ stopListeners[e] <= 1
            /\ \A c \in callbacks : c.key = <<c.device, "_eventlistener">>
            /\ stopHandled[e] # "no" =>
                  /\ stopListeners[e] = 0
                  /\ \A c \in callbacks : c.entity # e)
    /\ [][\A e \in Entities :
            stopHandled[e] # "no" =>
               \A i \in 1..Len(invocations') :
                  invocations'[i].entity = e => i <= Len(invocations)]_vars

\* C4 witness: an entity whose callback was invoked before the stop has
\* handled the stop, and a later notification of its service invoked nothing.
C4_Witness ==
    \E e \in Entities :
        /\ stopHandled[e] = "ok"
        /\ Len(notifications) = 2 /\ Len(invocations) = 1
        /\ invocations[1] = [entity |-> e, by |-> 1]
        /\ notifications[2] = <<DeviceId(e), WantedService(e)>>

\* C5: the device-id lookup is scheduled onto the event loop and the handler,
\* called on the device layer's thread, blocks until it has returned; with
\* the loop running the wait ends, the event is fired only after the lookup
\* has completed, and its device_id is the lookup's result.
C5_LookupHandoff ==
    /\ []((deviceThread.pc = "waiting" /\ ~future.done) =>
            (future.scheduled /\ loopQueue = <<DeviceId(deviceThread.e)>>))
    /\ [][Len(events') > Len(events) =>
            /\ future.scheduled /\ future.done
            /\ events'[Len(events')].device_id = future.result
            /\ events'[Len(events')].thread = "device"]_vars
    /\ (deviceThread.pc = "waiting") ~> (deviceThread.pc = "idle")

\* C5 witness: an event carrying the registry's id of the device was fired.
C5_Witness ==
    /\ Len(events) >= 1
    /\ events[1].device_id = <<"registry", events[1].id>>

\* C12: handling the host's stop event never fails for a motion, smoke
\* detector or smoke detection system entity: the stop handler completes
\* without raising whether or not the entity's device had the service the
\* constructor looks for, and it unsubscribes only a callback the entity
\* subscribed.
C12_StopNeverFails ==
    \A e \in Entities :
        /\ stopHandled[e] # "AttributeError"
        /\ stopHandled[e] = "ok" =>
              /\ entityService[e] = WantedService(e)
              /\ \E i \in 1..Len(ServicesOf(e)) : ServicesOf(e)[i] = WantedService(e)

\* C12 failing case: the device of a motion entity had no "LatestMotion"
\* service at construction, self._service stayed None and the stop handler
\* raised AttributeError.
C12_Witness ==
    /\ device_services["motion"] = <<"BatteryLevel">>
    /\ built["motion"]
    /\ entityService["motion"] = "None"
    /\ stopFired
    /\ stopHandled["motion"] = "AttributeError"

\* C13: the EVENT_BOSCH_SHC event of a device callback is fired from the
\* event-loop thread: the handler is never on another thread when it calls
\* async_fire, and the event loop is never blocked waiting for the
\* device-id lookup (a lookup that is scheduled can always be run).
C13_FiredOnLoopThread ==
    /\ \A i \in 1..Len(events) : events[i].thread = "loop"
    /\ loopQueue # <<>> => ENABLED LoopRunLookup

\* C13 failing case: the device layer's thread called the handler of the
\* motion entity, waited for the lookup the loop ran, and then fired the
\* event itself.
C13_Witness ==
    /\ Len(invocations) = 1 /\ invocations[1].entity = "motion"
    /\ Len(events) = 1
    /\ events[1].id = DeviceId("motion")
    /\ events[1].device_id = <<"registry", DeviceId("motion")>>
    /\ events[1].thread = "device"
    /\ deviceThread = Idle

-----------------------------------------------------------------------------
(* The entity services of the binary_sensor platform, on SmokeDetectorSensor *)

\* at most MaxCalls service calls are made
MaxCalls == 3

\* Two smoke detector entities, each with its own device.
SmokeEntities == {"smoke1", "smoke2"}
SmokeDevices == {"sd1", "sd2"}

\* A slip: every entity acts on the first device.
EntityDevice_Shared(e) == "sd1"

\* self._device of a smoke detector entity
EntityDevice(e) == IF e = "smoke1" THEN "sd1" ELSE "sd2"

\* The command strings a caller passes (cv.string: any string).
Commands == {"INTRUSION_ALARM_ON_REQUESTED", "MUTE_ALARM"}

\* platform.async_register_entity_service(service, schema, method): the
\* method of the entity a service call runs.
ServiceMethod(service) ==
    CASE service = "SERVICE_SMOKEDETECTOR_CHECK" -> "async_request_smoketest"
      [] service = "SERVICE_SMOKEDETECTOR_ALARMSTATE" -> "async_request_alarmstate"

\* def set_alarmstate(device, command): device.alarmstate = command
set_alarmstate(command) == command

\* The executor job a method hands to hass.async_add_executor_job.
RequestJob(e, method, command) ==
    IF method = "async_request_smoketest"
    THEN [device |-> EntityDevice(e), op |-> "smoketest_requested", arg |-> ""]
    ELSE [device |-> EntityDevice(e), op |-> "alarmstate", arg |-> set_alarmstate(command)]

InitService ==
    /\ serviceCalls = <<>>
    /\ deviceLog = [d \in SmokeDevices |-> <<>>]
    /\ alarmstate = [d \in SmokeDevices |-> "IDLE_OFF"]
    /\ NoMotion /\ NoEvents /\ NoProps /\ NoEnergy /\ NoSetup

\* A service call on entity e: the host calls the registered method, which
\* runs up to its await: the job is handed to the executor.
ServiceCall(e, service, command) ==
    /\ Len(serviceCalls) < MaxCalls
    /\ service = "SERVICE_SMOKEDETECTOR_CHECK" => command = ""
    /\ service = "SERVICE_SMOKEDETECTOR_ALARMSTATE" => command \in Commands
    /\ serviceCalls' = Append(serviceCalls,
          [entity |-> e, service |-> service, command |-> command,
           job |-> RequestJob(e, ServiceMethod(service), command),
           pc |-> "submitted"])
    /\ UNCHANGED <<deviceLog, alarmstate>>
    /\ UNCHANGED notService

\* An executor thread runs the job of call i: the device-layer operation.
ExecutorRun(i) ==
    /\ serviceCalls[i].pc = "submitted"
    /\ LET job == serviceCalls[i].job IN
          /\ deviceLog' = [deviceLog EXCEPT ![job.device] =
                Append(@, [op |-> job.op, arg |-> job.arg, call |-> i])]
          /\ alarmstate' = IF job.op = "alarmstate"
                           THEN [alarmstate EXCEPT ![job.device] = job.arg]
                           ELSE alarmstate
    /\ serviceCalls' = [serviceCalls EXCEPT ![i].pc = "ran"]
    /\ UNCHANGED notService

\* The await of call i returns: the service call completes.
CallReturn(i) ==
    /\ serviceCalls[i].pc = "ran"
    /\ serviceCalls' = [serviceCalls EXCEPT ![i].pc = "done"]
    /\ UNCHANGED <<deviceLog, alarmstate>>
    /\ UNCHANGED notService

NextService ==
    \/ \E e \in SmokeEntities :
          \E service \in {"SERVICE_SMOKEDETECTOR_CHECK", "SERVICE_SMOKEDETECTOR_ALARMSTATE"} :
             \E command \in Commands \cup {""} : ServiceCall(e, service, command)
    \/ \E i \in 1..Len(serviceCalls) : ExecutorRun(i)
    \/ \E i \in 1..Len(serviceCalls) : CallReturn(i)

SpecService == InitService /\ [][NextService]_vars

\* The entries of device d's log made for call i.
LogEntries(d, i) == { k \in 1..Len(deviceLog[d]) : deviceLog[d][k].call = i }

\* The last alarmstate assigned on device d, "IDLE_OFF" when there is none.
RECURSIVE LastAssigned(_, _)
LastAssigned(d, n) ==
    IF n = 0 THEN "IDLE_OFF"
    ELSE IF deviceLog[d][n].op = "alarmstate" THEN deviceLog[d][n].arg
    ELSE LastAssigned(d, n - 1)

\* C6: a smoke-test call on a smoke detector entity runs smoketest_requested
\* exactly once on that entity's device, an alarm-state call with command c
\* assigns alarmstate = c exactly once on that entity's device, neither
\* touches the device of another entity, and a call completes only after its
\* device-layer operation has run in the executor.
C6_ServiceCalls ==
    /\ \A i \in 1..Len(serviceCalls) :
          LET c == serviceCalls[i]
              own == IF c.entity = "smoke1" THEN "sd1" ELSE "sd2" IN
          /\ \A d \in SmokeDevices \ {own} : LogEntries(d, i) = {}
          /\ c.pc = "submitted" => LogEntries(own, i) = {}
          /\ c.pc \in {"ran", "done"} =>
                /\ Cardinality(LogEntries(own, i)) = 1
                /\ \A k \in LogEntries(own, i) :
                      IF c.service = "SERVICE_SMOKEDETECTOR_CHECK"
                      THEN deviceLog[own][k].op = "smoketest_requested"
                      ELSE /\ deviceLog[own][k].op = "alarmstate"
                           /\ deviceLog[own][k].arg = c.command
    /\ \A d \in SmokeDevices :
          /\ \A k \in 1..Len(deviceLog[d]) :
                deviceLog[d][k].call \in 1..Len(serviceCalls)
          /\ alarmstate[d] = LastAssigned(d, Len(deviceLog[d]))

\* C6 witness: a smoke test on one entity and an alarm-state call on the
\* other have both completed.
C6_Witness ==
    /\ Len(serviceCalls) = 2
    /\ serviceCalls[1].entity = "smoke1"
    /\ serviceCalls[1].service = "SERVICE_SMOKEDETECTOR_CHECK"
    /\ serviceCalls[2].entity = "smoke2"
    /\ serviceCalls[2].service = "SERVICE_SMOKEDETECTOR_ALARMSTATE"
    /\ serviceCalls[1].pc = "done" /\ serviceCalls[2].pc = "done"
    /\ alarmstate["sd2"] = serviceCalls[2].command
    /\ alarmstate["sd1"] = "IDLE_OFF"

-----------------------------------------------------------------------------
(* The properties the binary sensors map from a device attribute           *)

\* The values each device attribute takes: the values the code names, and
\* the other values of the device layer's enumerations.  "None" is an absent
\* device_class and "CUSTOM" one the lookup table does not hold.
AttrValues ==
    [state |-> {"OPEN", "CLOSED"},
     device_class |-> {"ENTRANCE_DOOR", "REGULAR_WINDOW", "FRENCH_WINDOW",
                       "GENERIC", "CUSTOM", "None"},
     alarmstate |-> {"IDLE_OFF", "PRIMARY_ALARM", "SECONDARY_ALARM", "INTRUSION_ALARM"},
     leakage_state |-> {"NO_LEAKAGE", "LEAKAGE_DETECTED"},
     alarm |-> {"ALARM_OFF", "ALARM_ON", "ALARM_MUTED"},
     batterylevel |-> {"OK", "LOW_BATTERY", "CRITICAL_LOW", "NOT_AVAILABLE"}]

AttrNames == DOMAIN AttrValues

\* A slip in the table: a French window is classed as a window.
switcher_FrenchWindow ==
    [c \in {"ENTRANCE_DOOR", "REGULAR_WINDOW", "FRENCH_WINDOW", "GENERIC"} |->
        IF c = "ENTRANCE_DOOR" THEN "DOOR" ELSE "WINDOW"]

\* switcher = {"ENTRANCE_DOOR": DOOR, "REGULAR_WINDOW": WINDOW,
\*             "FRENCH_WINDOW": DOOR, "GENERIC": WINDOW}
switcher ==
    [c \in {"ENTRANCE_DOOR", "REGULAR_WINDOW", "FRENCH_WINDOW", "GENERIC"} |->
        CASE c = "ENTRANCE_DOOR"  -> "DOOR"
          [] c = "REGULAR_WINDOW" -> "WINDOW"
          [] c = "FRENCH_WINDOW"  -> "DOOR"
          [] c = "GENERIC"        -> "WINDOW"]

\* dict.get(key, default)
DictGet(d, key, default) == IF key \in DOMAIN d THEN d[key] ELSE default

\* ShutterContactSensor.device_class
ShutterContactSensor_device_class(device_class) ==
    DictGet(switcher, device_class, "WINDOW")

\* ShutterContactSensor.is_on
ShutterContactSensor_is_on(state) == state = "OPEN"

\* SmokeDetectorSensor.is_on
SmokeDetectorSensor_is_on(alarm_state) == alarm_state # "IDLE_OFF"

\* WaterLeakageDetectorSensor.is_on
WaterLeakageDetectorSensor_is_on(leakage_state) == leakage_state # "NO_LEAKAGE"

\* SmokeDetectionSystemSensor.is_on
SmokeDetectionSystemSensor_is_on(alarm) == alarm # "ALARM_OFF"

\* A slip: a battery level that is not available is not reported.
BatterySensor_is_on_OnlyLow(batterylevel) ==
    batterylevel \in {"LOW_BATTERY", "CRITICAL_LOW"}

\* BatterySensor.is_on: the three comparisons before the return only log.
BatterySensor_is_on(batterylevel) == batterylevel # "OK"

\* The properties read, each with the device attribute it reads.
Properties ==
    [ShutterContactSensor_device_class |-> "device_class",
     ShutterContactSensor_is_on |-> "state",
     SmokeDetectorSensor_is_on |-> "alarmstate",
     WaterLeakageDetectorSensor_is_on |-> "leakage_state",
     SmokeDetectionSystemSensor_is_on |-> "alarm",
     BatterySensor_is_on |-> "batterylevel"]

PropertyValue(prop, v) ==
    CASE prop = "ShutterContactSensor_device_class" -> ShutterContactSensor_device_class(v)
      [] prop = "ShutterContactSensor_is_on" -> ShutterContactSensor_is_on(v)
      [] prop = "SmokeDetectorSensor_is_on" -> SmokeDetectorSensor_is_on(v)
      [] prop = "WaterLeakageDetectorSensor_is_on" -> WaterLeakageDetectorSensor_is_on(v)
      [] prop = "SmokeDetectionSystemSensor_is_on" -> SmokeDetectionSystemSensor_is_on(v)
      [] prop = "BatterySensor_is_on" -> BatterySensor_is_on(v)

InitProps ==
    /\ attrs \in [AttrNames -> UNION { AttrValues[a] : a \in AttrNames }]
    /\ \A a \in AttrNames : attrs[a] \in AttrValues[a]
    /\ propRead = [prop |-> "none", input |-> "", value |-> ""]
    /\ NoMotion /\ NoEvents /\ NoService /\ NoEnergy /\ NoSetup

\* The device layer updates an attribute of a device.
DeviceUpdate(a, v) ==
    /\ v \in AttrValues[a]
    /\ attrs' = [attrs EXCEPT ![a] = v]
    /\ UNCHANGED propRead
    /\ UNCHANGED notProps

\* The host reads a property of an entity.
ReadProperty(prop) ==
    /\ propRead' = [prop |-> prop, input |-> attrs[Properties[prop]],
                    value |-> PropertyValue(prop, attrs[Properties[prop]])]
    /\ UNCHANGED attrs
    /\ UNCHANGED notProps

NextProps ==
    \/ \E a \in AttrNames : \E v \in AttrValues[a] : DeviceUpdate(a, v)
    \/ \E prop \in DOMAIN Properties : ReadProperty(prop)

SpecProps == InitProps /\ [][NextProps]_vars

\* C7: ShutterContactSensor.device_class is a total lookup: ENTRANCE_DOOR and
\* FRENCH_WINDOW give DOOR, REGULAR_WINDOW and GENERIC give WINDOW, every
\* other value, an absent one included, gives WINDOW; the result is always
\* DOOR or WINDOW.
C7_ShutterDeviceClass ==
    propRead.prop = "ShutterContactSensor_device_class" =>
        /\ propRead.value \in {"DOOR", "WINDOW"}
        /\ propRead.input \in {"ENTRANCE_DOOR", "FRENCH_WINDOW"} => propRead.value = "DOOR"
        /\ propRead.input \in {"REGULAR_WINDOW", "GENERIC"} => propRead.value = "WINDOW"
        /\ propRead.input \notin {"ENTRANCE_DOOR", "FRENCH_WINDOW",
                                  "REGULAR_WINDOW", "GENERIC"}
              => propRead.value = "WINDOW"

\* C7 witness: the device class of a French window was read as DOOR.
C7_Witness ==
    /\ propRead.prop = "ShutterContactSensor_device_class"
    /\ propRead.input = "FRENCH_WINDOW"
    /\ propRead.value = "DOOR"

\* C7 second case: an absent device class was read as WINDOW.
C7_WitnessAbsent ==
    /\ propRead.prop = "ShutterContactSensor_device_class"
    /\ propRead.input = "None"
    /\ propRead.value = "WINDOW"

\* The device state for which a state-mapped sensor is off.
OffState ==
    [ShutterContactSensor_is_on |-> "CLOSED",
     SmokeDetectorSensor_is_on |-> "IDLE_OFF",
     WaterLeakageDetectorSensor_is_on |-> "NO_LEAKAGE",
     SmokeDetectionSystemSensor_is_on |-> "ALARM_OFF",
     BatterySensor_is_on |-> "OK"]

\* C11: each state-mapped binary sensor read is a boolean: the shutter
\* contact is on iff state = OPEN, the smoke detector iff alarmstate is not
\* IDLE_OFF, the water leakage detector iff leakage_state is not NO_LEAKAGE,
\* the smoke detection system iff alarm is not ALARM_OFF, the battery sensor
\* iff batterylevel is not OK (so NOT_AVAILABLE reads on, like LOW_BATTERY
\* and CRITICAL_LOW); each is off for exactly one state of its device.
C11_StateMappedIsOn ==
    /\ propRead.prop \in DOMAIN OffState =>
          /\ propRead.value \in BOOLEAN
          /\ propRead.input \in AttrValues[Properties[propRead.prop]]
    /\ propRead.prop = "ShutterContactSensor_is_on" =>
          (propRead.value <=> propRead.input = "OPEN")
    /\ propRead.prop = "SmokeDetectorSensor_is_on" =>
          (propRead.value <=> propRead.input # "IDLE_OFF")
    /\ propRead.prop = "WaterLeakageDetectorSensor_is_on" =>
          (propRead.value <=> propRead.input # "NO_LEAKAGE")
    /\ propRead.prop = "SmokeDetectionSystemSensor_is_on" =>
          (propRead.value <=> propRead.input # "ALARM_OFF")
    /\ propRead.prop = "BatterySensor_is_on" =>
          /\ (propRead.value <=> propRead.input # "OK")
          /\ propRead.input \in {"NOT_AVAILABLE", "LOW_BATTERY", "CRITICAL_LOW"}
                => propRead.value
    /\ propRead.prop \in DOMAIN OffState =>
          (~propRead.value <=> propRead.input = OffState[propRead.prop])

\* C11 witness: a battery level that is not available was read as on.
C11_Witness ==
    /\ propRead.prop = "BatterySensor_is_on"
    /\ propRead.input = "NOT_AVAILABLE"
    /\ propRead.value = TRUE

\* C11 second case: a closed shutter contact was read as off.
C11_WitnessOff ==
    /\ propRead.prop = "ShutterContactSensor_is_on"
    /\ propRead.input = "CLOSED"
    /\ propRead.value = FALSE

-----------------------------------------------------------------------------
(* EnergySensor.native_value: self._device.energyconsumption / 1000.0      *)
(*                                                                         *)
(* Python's float is an IEEE 754 double.  A positive double is modelled by *)
(* its MantissaBits-bit mantissa m (a sequence of bits, most significant   *)
(* first, the first bit 1) and the exponent e of the mantissa's last bit:  *)
(* its value is m * 2^e.  Zero has the empty mantissa.                     *)

\* readings run from 0 to MaxReading Wh
MaxReading == 1100
\* between two reads the reading grows by at most MaxStep Wh
MaxStep == 2

\* the precision of a double
MantissaBits == 53

\* the long multiplication below works on limbs of LimbBits bits
LimbBits == 13

Zero == [m |-> <<>>, e |-> 0]

\* 2^n
RECURSIVE Pow2(_)
Pow2(n) == IF n = 0 THEN 1 ELSE 2 * Pow2(n - 1)

\* 2^n mod d, by squaring
RECURSIVE Pow2Mod(_, _)
Pow2Mod(n, d) ==
    IF n = 0 THEN 1 % d
    ELSE IF n % 2 = 0 THEN (Pow2Mod(n \div 2, d) * Pow2Mod(n \div 2, d)) % d
    ELSE (2 * Pow2Mod(n - 1, d)) % d

\* The binary digits of a natural number, most significant first.
RECURSIVE BitsOf(_)
BitsOf(n) == IF n = 0 THEN <<>> ELSE Append(BitsOf(n \div 2), n % 2)

\* The binary digits of v < 2^width on width bits.
FixedBits(v, width) == [i \in 1..width |-> (v \div Pow2(width - i)) % 2]

\* The natural number of a sequence of binary digits.
RECURSIVE ValueOf(_)
ValueOf(bits) ==
    IF bits = <<>> THEN 0
    ELSE 2 * ValueOf(SubSeq(bits, 1, Len(bits) - 1)) + bits[Len(bits)]

\* bits without its leading zeros
StripZeros(bits) ==
    IF \A i \in 1..Len(bits) : bits[i] = 0 THEN <<>>
    ELSE LET first == CHOOSE i \in 1..Len(bits) :
                         bits[i] = 1 /\ \A j \in 1..(i - 1) : bits[j] = 0
         IN  SubSeq(bits, first, Len(bits))

\* bits + 1 on Len(bits) bits, and the carry out.
IncBits(bits) ==
    LET n == Len(bits) IN
    IF \A i \in 1..n : bits[i] = 1
    THEN [bits |-> [i \in 1..n |-> 0], carry |-> 1]
    ELSE LET p == CHOOSE i \in 1..n :
                     bits[i] = 0 /\ \A j \in (i + 1)..n : bits[j] = 1
         IN  [bits |-> [i \in 1..n |-> IF i < p THEN bits[i]
                                       ELSE IF i = p THEN 1 ELSE 0],
              carry |-> 0]

\* Rounding to nearest, ties to even: the double nearest to the number whose
\* significant bits are `bits` (the first 1, the last of weight 2^e),
\* followed by further non-zero bits iff `sticky`.
RoundToDouble(bits, sticky, e) ==
    LET n == Len(bits) IN
    IF n <= MantissaBits
    THEN [m |-> bits \o [i \in 1..(MantissaBits - n) |-> 0],
          e |-> e - (MantissaBits - n)]
    ELSE LET mant == SubSeq(bits, 1, MantissaBits)
             guard == bits[MantissaBits + 1]
             rest == sticky \/ \E i \in (MantissaBits + 2)..n : bits[i] = 1
             exp == e + (n - MantissaBits)
             up == guard = 1 /\ (rest \/ mant[MantissaBits] = 1)
             inc == IncBits(mant)
         IN  IF ~up THEN [m |-> mant, e |-> exp]
             ELSE IF inc.carry = 0 THEN [m |-> inc.bits, e |-> exp]
             ELSE [m |-> <<1>> \o SubSeq(inc.bits, 1, MantissaBits - 1), e |-> exp + 1]

\* Long division of r by d, 0 <= r < d: the bit of weight 2^-j of r / d, and
\* the remainder left after it.
FractionBit(r, d, j) == (2 * ((r * Pow2Mod(j - 1, d)) % d)) \div d
FractionRest(r, d, j) == (r * Pow2Mod(j, d)) % d

\* The first `want` significant bits of w / d (w > 0, at most `want` bits
\* before the point), the exponent e of the last of them, and whether
\* non-zero bits follow.
QuotientBits(w, d, want) ==
    LET whole == BitsOf(w \div d)
        r == w % d
    IN  IF whole # <<>>
        THEN LET nfrac == want - Len(whole) IN
             [bits |-> whole \o [j \in 1..nfrac |-> FractionBit(r, d, j)],
              e |-> 0 - nfrac,
              sticky |-> FractionRest(r, d, nfrac) # 0]
        ELSE LET first == CHOOSE j \in 1..Len(BitsOf(d)) :
                             /\ FractionBit(r, d, j) = 1
                             /\ \A i \in 1..(j - 1) : FractionBit(r, d, i) = 0
                 last == first + want - 1
             IN  [bits |-> [i \in 1..want |-> FractionBit(r, d, first + i - 1)],
                  e |-> 0 - last,
                  sticky |-> FractionRest(r, d, last) # 0]

\* The double division of the integers w >= 0 and d > 0, both doubles.
RoundQuotient(q) == RoundToDouble(q.bits, q.sticky, q.e)
FloatDivide(w, d) ==
    IF w = 0 THEN Zero
    ELSE RoundQuotient(QuotientBits(w, d, MantissaBits + 1))

\* float(w) of an integer w >= 0
FloatOfInt(w) == FloatDivide(w, 1)

\* Long multiplication: the bits of m * k + carry * 2^((j-1) * LimbBits) from
\* limb j of m upwards (limb 1 is the least significant).
RECURSIVE TimesLimbs(_, _, _, _)
TimesLimbs(m, k, j, carry) ==
    LET n == Len(m)
        hi == n - (j - 1) * LimbBits
        lo == IF hi - LimbBits + 1 < 1 THEN 1 ELSE hi - LimbBits + 1
    IN  IF hi < 1 THEN BitsOf(carry)
        ELSE LET t == ValueOf(SubSeq(m, lo, hi)) * k + carry
                 width == hi - lo + 1
             IN  TimesLimbs(m, k, j + 1, t \div Pow2(width))
                    \o FixedBits(t % Pow2(width), width)

\* The double product of the double x and the integer k > 0.
FloatTimes(x, k) ==
    IF x.m = <<>> THEN Zero
    ELSE RoundToDouble(StripZeros(TimesLimbs(x.m, k, 1, 0)), FALSE, x.e)

\* x <= y on doubles
FloatLeq(x, y) ==
    \/ x.m = <<>>
    \/ /\ y.m # <<>>
       /\ \/ x.e < y.e
          \/ /\ x.e = y.e
             /\ \/ x.m = y.m
                \/ \E i \in 1..MantissaBits :
                      /\ x.m[i] < y.m[i]
                      /\ \A j \in 1..(i - 1) : x.m[j] = y.m[j]

\* The integer nearest to a double below 2^52 (a half rounds up).
NearestInt(x) ==
    IF x.m = <<>> THEN 0
    ELSE LET n == MantissaBits + x.e IN
         IF n < 0 THEN 0
         ELSE ValueOf(SubSeq(x.m, 1, n)) + x.m[n + 1]

\* A slip: integer division.
EnergySensor_native_value_Floor(energy) == FloatOfInt(energy \div 1000)

\* EnergySensor.native_value
EnergySensor_native_value(energy) == FloatDivide(energy, 1000)

\* native_value of every reading of the model
NativeValues == [w \in 0..MaxReading |-> EnergySensor_native_value(w)]

NotRead == [read |-> FALSE, w |-> 0, value |-> Zero]

InitEnergy ==
    /\ energyconsumption \in 0..MaxReading
    /\ energyRead = [prev |-> NotRead, last |-> NotRead]
    /\ NoMotion /\ NoEvents /\ NoService /\ NoProps /\ NoSetup

\* The device layer reports a new reading, once the host has read the
\* current one: a greater one, or a smaller one (the meter was reset).
EnergyReport(w) ==
    /\ energyRead.last.read /\ energyRead.last.w = energyconsumption
    /\ \/ w \in (energyconsumption + 1)..(energyconsumption + MaxStep)
       \/ w = 0 /\ energyconsumption > 0
    /\ w <= MaxReading
    /\ energyconsumption' = w
    /\ UNCHANGED energyRead
    /\ UNCHANGED notEnergy

\* The host reads native_value.
EnergyRead ==
    /\ energyRead' =
          [prev |-> energyRead.last,
           last |-> [read |-> TRUE, w |-> energyconsumption,
                     value |-> NativeValues[energyconsumption]]]
    /\ UNCHANGED energyconsumption
    /\ UNCHANGED notEnergy

NextEnergy ==
    \/ \E w \in 0..MaxReading : EnergyReport(w)
    \/ EnergyRead

SpecEnergy == InitEnergy /\ [][NextEnergy]_vars

\* The reported value does not decrease between two reads between which the
\* reading did not decrease.
EnergyMonotone ==
    (energyRead.prev.read /\ energyRead.prev.w <= energyRead.last.w) =>
        FloatLeq(energyRead.prev.value, energyRead.last.value)

\* C8 as stated: for every integer reading w, native_value * 1000 equals w,
\* and the reported value does not decrease when the reading does not.
C8_ExactRoundTrip ==
    energyRead.last.read =>
        /\ FloatTimes(energyRead.last.value, 1000) = FloatOfInt(energyRead.last.w)
        /\ EnergyMonotone

\* C8 as amended: native_value is the reading divided by 1000 in double
\* arithmetic, so native_value * 1000 is w up to the rounding of the two
\* operations: it rounds to the integer w but need not equal w; the reported
\* value does not decrease when the reading does not.
C8_EnergyValue ==
    energyRead.last.read =>
        /\ NearestInt(FloatTimes(energyRead.last.value, 1000)) = energyRead.last.w
        /\ EnergyMonotone

\* C8 witness: after a read of a smaller reading, the reading 1001 Wh was
\* read, and its value times 1000 is not 1001.
C8_Witness ==
    /\ energyRead.prev.read /\ energyRead.last.read
    /\ energyRead.prev.w < energyRead.last.w
    /\ energyRead.last.w = 1001
    /\ FloatTimes(energyRead.last.value, 1000) # FloatOfInt(1001)

-----------------------------------------------------------------------------
(* async_setup_entry of the binary_sensor and the sensor platform          *)
(*                                                                         *)
(* A session holds the hub's devices; the device helper's collections are  *)
(* the devices of one kind, in the session's order.  A device is named by  *)
(* its position in the session.  An entity is the pair of its class and    *)
(* its device; the constructors' own effects are those of Construct above. *)

\* a session holds at most MaxDevices devices
MaxDevices == 2

Kinds == {"shutter_contacts", "motion_detectors", "smoke_detectors",
          "water_leakage_detectors", "thermostats", "twinguards",
          "universal_switches", "wallthermostats", "smart_plugs",
          "light_switches", "smart_plugs_compact"}

Devices == [kind : Kinds, supports_batterylevel : BOOLEAN]

Sessions ==
    [devices : UNION { [1..n -> Devices] : n \in 0..MaxDevices },
     smoke_detection_system : BOOLEAN]

\* session.device_helper.<kind>: the devices of the kind, in order
RECURSIVE Collection(_, _, _)
Collection(s, kind, n) ==
    IF n = 0 THEN <<>>
    ELSE IF s.devices[n].kind = kind
         THEN Append(Collection(s, kind, n - 1), n)
         ELSE Collection(s, kind, n - 1)

device_helper(s, kind) == Collection(s, kind, Len(s.devices))

\* for device in devices: entities.append(C(device)) for each class C
RECURSIVE ForEach(_, _, _)
ForEach(devices, classes, n) ==
    IF n = 0 THEN <<>>
    ELSE ForEach(devices, classes, n - 1)
            \o [c \in 1..Len(classes) |-> [class |-> classes[c], device |-> devices[n]]]

EntitiesOf(devices, classes) == ForEach(devices, classes, Len(devices))

\* A slip: the universal switches are left out.
BatteryCandidates_NoSwitches(s) ==
    device_helper(s, "motion_detectors")
        \o device_helper(s, "shutter_contacts")
        \o device_helper(s, "smoke_detectors")
        \o device_helper(s, "thermostats")
        \o device_helper(s, "twinguards")
        \o device_helper(s, "wallthermostats")
        \o device_helper(s, "water_leakage_detectors")

\* motion_detectors + shutter_contacts + ... + water_leakage_detectors
BatteryCandidates(s) ==
    device_helper(s, "motion_detectors")
        \o device_helper(s, "shutter_contacts")
        \o device_helper(s, "smoke_detectors")
        \o device_helper(s, "thermostats")
        \o device_helper(s, "twinguards")
        \o device_helper(s, "universal_switches")
        \o device_helper(s, "wallthermostats")
        \o device_helper(s, "water_leakage_detectors")

\* if binary_sensor.supports_batterylevel: entities.append(BatterySensor(...))
RECURSIVE WithBattery(_, _, _)
WithBattery(s, devices, n) ==
    IF n = 0 THEN <<>>
    ELSE IF s.devices[devices[n]].supports_batterylevel
         THEN Append(WithBattery(s, devices, n - 1), devices[n])
         ELSE WithBattery(s, devices, n - 1)

\* The entities list of the binary_sensor platform's async_setup_entry.
BinarySensorEntities(s) ==
    EntitiesOf(device_helper(s, "shutter_contacts"), <<"ShutterContactSensor">>)
        \o EntitiesOf(device_helper(s, "motion_detectors"), <<"MotionDetectionSensor">>)
        \o EntitiesOf(device_helper(s, "smoke_detectors"), <<"SmokeDetectorSensor">>)
        \o (IF s.smoke_detection_system
            THEN <<[class |-> "SmokeDetectionSystemSensor", device |-> 0]>>
            ELSE <<>>)
        \o EntitiesOf(device_helper(s, "water_leakage_detectors"),
                      <<"WaterLeakageDetectorSensor">>)
        \o EntitiesOf(WithBattery(s, BatteryCandidates(s), Len(BatteryCandidates(s))),
                      <<"BatterySensor">>)

\* A slip: the compact smart plug gets no communication quality sensor.
CompactPlugSensors_NoQuality == <<"PowerSensor", "EnergySensor">>

\* the sensors appended for a device of smart_plugs_compact
CompactPlugSensors == <<"PowerSensor", "EnergySensor", "CommunicationQualitySensor">>

\* The entities list of the sensor platform's async_setup_entry.
SensorEntities(s) ==
    EntitiesOf(device_helper(s, "thermostats"),
               <<"TemperatureSensor", "ValveTappetSensor">>)
        \o EntitiesOf(device_helper(s, "wallthermostats"),
                      <<"TemperatureSensor", "HumiditySensor">>)
        \o EntitiesOf(device_helper(s, "twinguards"),
                      <<"TemperatureSensor", "HumiditySensor", "PuritySensor",
                        "AirQualitySensor", "TemperatureRatingSensor",
                        "HumidityRatingSensor", "PurityRatingSensor">>)
        \o EntitiesOf(device_helper(s, "smart_plugs") \o device_helper(s, "light_switches"),
                      <<"PowerSensor", "EnergySensor">>)
        \o EntitiesOf(device_helper(s, "smart_plugs_compact"), CompactPlugSensors)

\* if entities: async_add_entities(entities)
AddEntities(entities) == IF entities # <<>> THEN <<entities>> ELSE <<>>

\* The entity counts do not read the serials: they are left out here.
InitSetup ==
    /\ session \in Sessions
    /\ serials = <<>>
    /\ platform = "none"
    /\ addCalls = <<>>
    /\ registered = <<>>
    /\ migrations = <<>>
    /\ NoMotion /\ NoEvents /\ NoService /\ NoProps /\ NoEnergy

\* async_setup_entry of binary_sensor.py.  It has no await: it runs in one
\* step of the event loop.
BinarySensorSetup ==
    /\ platform = "none"
    /\ platform' = "binary_sensor"
    /\ migrations' = IF session.smoke_detection_system
                     THEN <<[platform |-> "binary_sensor", device |-> 0]>>
                     ELSE <<>>
    /\ registered' =
          << [service |-> "SERVICE_SMOKEDETECTOR_CHECK",
              method |-> "async_request_smoketest"],
             [service |-> "SERVICE_SMOKEDETECTOR_ALARMSTATE",
              method |-> "async_request_alarmstate"] >>
    /\ addCalls' = AddEntities(BinarySensorEntities(session))
    /\ UNCHANGED <<session, serials>>
    /\ UNCHANGED notSetup

\* async_setup_entry of sensor.py, likewise without an await.
SensorSetup ==
    /\ platform = "none"
    /\ platform' = "sensor"
    /\ addCalls' = AddEntities(SensorEntities(session))
    /\ UNCHANGED <<session, serials, registered, migrations>>
    /\ UNCHANGED notSetup

NextSetup == BinarySensorSetup \/ SensorSetup

SpecSetup == InitSetup /\ [][NextSetup]_vars

-----------------------------------------------------------------------------
(* Claims about the platform setups                                        *)

\* All entities passed to async_add_entities.
Added == IF addCalls = <<>> THEN <<>> ELSE addCalls[1]

\* The number of added entities of class c for device d.
CountOf(c, d) ==
    Cardinality({ k \in 1..Len(Added) : Added[k].class = c /\ Added[k].device = d })

DeviceIndexes == 1..Len(session.devices)

\* C9: the binary_sensor setup creates one entity per shutter contact,
\* motion detector, smoke detector and water leakage detector, one smoke
\* detection system entity iff the session has such a system, one
\* BatterySensor for each device of the eight battery collections whose
\* supports_batterylevel is true, and nothing else; async_add_entities is
\* called once with all of them iff there is at least one; the two entity
\* services are registered in either case.
C9_BinarySensorSetup ==
    platform = "binary_sensor" =>
        /\ \A d \in DeviceIndexes :
              LET dev == session.devices[d] IN
              /\ CountOf("ShutterContactSensor", d) =
                    IF dev.kind = "shutter_contacts" THEN 1 ELSE 0
              /\ CountOf("MotionDetectionSensor", d) =
                    IF dev.kind = "motion_detectors" THEN 1 ELSE 0
              /\ CountOf("SmokeDetectorSensor", d) =
                    IF dev.kind = "smoke_detectors" THEN 1 ELSE 0
              /\ CountOf("WaterLeakageDetectorSensor", d) =
                    IF dev.kind = "water_leakage_detectors" THEN 1 ELSE 0
              /\ CountOf("BatterySensor", d) =
                    IF /\ dev.supports_batterylevel
                       /\ dev.kind \in {"motion_detectors", "shutter_contacts",
                                        "smoke_detectors", "thermostats", "twinguards",
                                        "universal_switches", "wallthermostats",
                                        "water_leakage_detectors"}
                    THEN 1 ELSE 0
              /\ CountOf("SmokeDetectionSystemSensor", d) = 0
        /\ CountOf("SmokeDetectionSystemSensor", 0) =
              IF session.smoke_detection_system THEN 1 ELSE 0
        /\ \A k \in 1..Len(Added) :
              /\ Added[k].device \in DeviceIndexes \cup {0}
              /\ Added[k].class \in
                    {"ShutterContactSensor", "MotionDetectionSensor",
                     "SmokeDetectorSensor", "WaterLeakageDetectorSensor",
                     "BatterySensor", "SmokeDetectionSystemSensor"}
              /\ Added[k].device = 0 => Added[k].class = "SmokeDetectionSystemSensor"
        /\ Len(addCalls) <= 1
        /\ Len(addCalls) = 1 <=>
              \/ session.smoke_detection_system
              \/ \E d \in DeviceIndexes :
                    \/ session.devices[d].kind \in
                          {"shutter_contacts", "motion_detectors", "smoke_detectors",
                           "water_leakage_detectors"}
                    \/ /\ session.devices[d].supports_batterylevel
                       /\ session.devices[d].kind \in
                             {"thermostats", "twinguards", "universal_switches",
                              "wallthermostats"}
        /\ Len(addCalls) = 1 => addCalls[1] # <<>>
        /\ Len(registered) = 2
        /\ { registered[1].service, registered[2].service } =
              {"SERVICE_SMOKEDETECTOR_CHECK", "SERVICE_SMOKEDETECTOR_ALARMSTATE"}

\* C9 witness: a session with a smoke detection system, a universal switch
\* that reports its battery and a shutter contact that does not was set up.
C9_Witness ==
    /\ platform = "binary_sensor"
    /\ session.smoke_detection_system
    /\ Len(session.devices) = 2
    /\ session.devices[1] = [kind |-> "universal_switches", supports_batterylevel |-> TRUE]
    /\ session.devices[2] = [kind |-> "shutter_contacts", supports_batterylevel |-> FALSE]
    /\ Len(addCalls) = 1 /\ Len(addCalls[1]) = 3

\* C9 second case: a session without any entity was set up: no call of
\* async_add_entities, both services registered.
C9_WitnessEmpty ==
    /\ platform = "binary_sensor"
    /\ ~session.smoke_detection_system
    /\ Len(session.devices) = 1
    /\ session.devices[1].kind = "smart_plugs"
    /\ addCalls = <<>> /\ Len(registered) = 2

\* The sensor classes the claim lists for a device kind.
ClaimedSensors(kind) ==
    CASE kind = "thermostats" -> {"TemperatureSensor", "ValveTappetSensor"}
      [] kind = "wallthermostats" -> {"TemperatureSensor", "HumiditySensor"}
      [] kind = "twinguards" ->
            {"TemperatureSensor", "HumiditySensor", "PuritySensor", "AirQualitySensor",
             "TemperatureRatingSensor", "HumidityRatingSensor", "PurityRatingSensor"}
      [] kind \in {"smart_plugs", "light_switches"} -> {"PowerSensor", "EnergySensor"}
      [] kind = "smart_plugs_compact" ->
            {"PowerSensor", "EnergySensor", "CommunicationQualitySensor"}
      [] OTHER -> {}

\* The number of sensors the claim gives per device of a kind.
ClaimedCount(kind) ==
    CASE kind \in {"thermostats", "wallthermostats", "smart_plugs", "light_switches"} -> 2
      [] kind = "twinguards" -> 7
      [] kind = "smart_plugs_compact" -> 3
      [] OTHER -> 0

RECURSIVE ClaimedTotal(_)
ClaimedTotal(n) ==
    IF n = 0 THEN 0 ELSE ClaimedTotal(n - 1) + ClaimedCount(session.devices[n].kind)

\* C10: the sensor setup creates a fixed set of entities per device: 2 per
\* thermostat, 2 per wall thermostat, 7 per twinguard, 2 per smart plug and
\* per light switch, 3 per compact smart plug; the total is the sum over
\* the devices, and async_add_entities is called exactly once iff the total
\* is not zero.
C10_SensorSetup ==
    platform = "sensor" =>
        /\ \A d \in DeviceIndexes :
              LET kind == session.devices[d].kind IN
              /\ \A c \in ClaimedSensors(kind) : CountOf(c, d) = 1
              /\ Cardinality({ k \in 1..Len(Added) : Added[k].device = d })
                    = ClaimedCount(kind)
        /\ \A k \in 1..Len(Added) : Added[k].device \in DeviceIndexes
        /\ Len(Added) = ClaimedTotal(Len(session.devices))
        /\ Len(addCalls) <= 1
        /\ Len(addCalls) = 1 <=> ClaimedTotal(Len(session.devices)) # 0

\* C10 witness: a twinguard and a compact smart plug were set up: ten sensors.
C10_Witness ==
    /\ platform = "sensor"
    /\ Len(session.devices) = 2
    /\ session.devices[1].kind = "twinguards"
    /\ session.devices[2].kind = "smart_plugs_compact"
    /\ Len(addCalls) = 1 /\ Len(addCalls[1]) = 10

\* C10 second case: a session with no sensor device: no call.
C10_WitnessEmpty ==
    /\ platform = "sensor"
    /\ Len(session.devices) = 1
    /\ session.devices[1].kind = "shutter_contacts"
    /\ addCalls = <<>>

-----------------------------------------------------------------------------
(* The unique ids of the sensor platform's entities                        *)
(*                                                                         *)
(* A string is modelled by the sequence of its pieces; the pieces are      *)
(* chosen so that no piece is the beginning of another, hence two strings  *)
(* are equal iff their sequences are.  A serial may itself end in a piece  *)
(* that is also the ending an entity class appends.                        *)

\* The serials devices have.
Serials ==
    { <<"hdm:1">>, <<"hdm:2">>, <<"hdm:1", "_temperature">>, <<"hdm:1", "_rating">> }

\* A slip: the temperature rating sensor appends the temperature sensor's
\* ending.
UniqueIdSuffix_RatingSlip ==
    [TemperatureSensor |-> <<"_temperature">>,
     HumiditySensor |-> <<"_humidity">>,
     PuritySensor |-> <<"_purity">>,
     AirQualitySensor |-> <<"_airquality">>,
     TemperatureRatingSensor |-> <<"_temperature">>,
     CommunicationQualitySensor |-> <<"_communication_quality">>,
     HumidityRatingSensor |-> <<"_humidity", "_rating">>,
     PurityRatingSensor |-> <<"_purity", "_rating">>,
     PowerSensor |-> <<"_power">>,
     EnergySensor |-> <<"_energy">>,
     ValveTappetSensor |-> <<"_valvetappet">>]

\* What each class's __init__ appends to the serial in _attr_unique_id.
UniqueIdSuffix ==
    [TemperatureSensor |-> <<"_temperature">>,
     HumiditySensor |-> <<"_humidity">>,
     PuritySensor |-> <<"_purity">>,
     AirQualitySensor |-> <<"_airquality">>,
     TemperatureRatingSensor |-> <<"_temperature", "_rating">>,
     CommunicationQualitySensor |-> <<"_communication_quality">>,
     HumidityRatingSensor |-> <<"_humidity", "_rating">>,
     PurityRatingSensor |-> <<"_purity", "_rating">>,
     PowerSensor |-> <<"_power">>,
     EnergySensor |-> <<"_energy">>,
     ValveTappetSensor |-> <<"_valvetappet">>]

\* self._attr_unique_id = f"{device.serial}<ending>"
unique_id(entity) == serials[entity.device] \o UniqueIdSuffix[entity.class]

\* Sessions as the sensor platform reads them (it reads neither the smoke
\* detection system nor supports_batterylevel), each device in one
\* collection, with pairwise distinct serials.
InitSensorIds ==
    /\ session \in { s \in Sessions :
                        /\ ~s.smoke_detection_system
                        /\ \A d \in 1..Len(s.devices) :
                              ~s.devices[d].supports_batterylevel }
    /\ serials \in { f \in [1..Len(session.devices) -> Serials] :
                        \A d1, d2 \in 1..Len(session.devices) :
                            d1 # d2 => f[d1] # f[d2] }
    /\ platform = "none"
    /\ addCalls = <<>>
    /\ registered = <<>>
    /\ migrations = <<>>
    /\ NoMotion /\ NoEvents /\ NoService /\ NoProps /\ NoEnergy

SpecSensorIds == InitSensorIds /\ [][SensorSetup]_vars

\* The endings the claim lists.
ClaimedSuffixes ==
    { <<"_temperature">>, <<"_humidity">>, <<"_purity">>, <<"_airquality">>,
      <<"_temperature", "_rating">>, <<"_humidity", "_rating">>,
      <<"_purity", "_rating">>, <<"_power">>, <<"_energy">>,
      <<"_communication_quality">>, <<"_valvetappet">> }

\* C15: all entities created by one sensor-platform setup have pairwise
\* distinct unique ids, each the device's serial followed by one of the
\* eleven endings, for devices with pairwise distinct serials none of which
\* is in more than one collection.
C15_UniqueIdsDistinct ==
    platform = "sensor" =>
        /\ \A i, j \in 1..Len(Added) :
              i # j => unique_id(Added[i]) # unique_id(Added[j])
        /\ \A i \in 1..Len(Added) :
              \E x \in ClaimedSuffixes :
                  unique_id(Added[i]) = serials[Added[i].device] \o x

\* C15 witness: a twinguard with serial hdm:1 and a thermostat whose serial
\* is hdm:1_temperature were set up: nine entities.
C15_Witness ==
    /\ platform = "sensor"
    /\ Len(session.devices) = 2
    /\ session.devices[1].kind = "twinguards" /\ serials[1] = <<"hdm:1">>
    /\ session.devices[2].kind = "thermostats"
    /\ serials[2] = <<"hdm:1", "_temperature">>
    /\ Len(Added) = 9
    /\ \E i \in 1..9 : unique_id(Added[i]) = <<"hdm:1", "_temperature", "_rating">>
    /\ \E i \in 1..9 : unique_id(Added[i]) = <<"hdm:1", "_temperature", "_temperature">>

====
